---- MODULE Spec2Model ----
(***************************************************************************)
(* Model of syncthing-task-resolve (src/src/main.rs, src/src/config.rs):   *)
(* one invocation of main() scans the taskwarrior data directory for       *)
(* syncthing conflict copies of the database, folds every copy and the     *)
(* main database into a History, merges it last-write-wins, re-imports the *)
(* merged tasks with `task import` into a temporary directory, backs up    *)
(* and removes every conflict participant, copies the re-imported database *)
(* into place and finally prunes old backup folders.                       *)
(***************************************************************************)
EXTENDS Integers, Sequences, FiniteSets, TLC

\* ------------------------------------------------------------------ bounds
MaxTs        == 2   \* conflict stamps range over the seconds 1..MaxTs
MaxConflicts == 2   \* at most this many conflict-named files in the data dir
MaxOld       == 2   \* at most this many backup folders before the first run
MaxKeepCfg   == 1   \* config.keep ranges over 0..MaxKeepCfg (or is omitted)
MaxRuns      == 2   \* invocations of the program in one behaviour
MaxHist      == 3   \* History::insert calls in the History-only specification
MaxTime      == 3   \* task dates range over 1..MaxTime in that specification
TicksPerSec  == 2   \* clock ticks per second: DateTime is finer than a name

\* ------------------------------------------------------- program constants
DEFAULT_KEEP_NUM == 100

\* ------------------------------------------------------------------- names
\* A file name of the data directory.  kind "sync-conflict" stands for
\* taskchampion.sync-conflict-<stamp>-<device>.sqlite3, kind "db" for
\* taskchampion.sqlite3, kind "other" for any name PATTERN does not match.
FileName(k, s, d) == [kind |-> k, stamp |-> s, device |-> d]
MainDb    == FileName("db", 0, "")
OtherFile == FileName("other", 0, "")

\* The digit string 00000000-000000 matches \d{8}-\d{6} but is no date.
BadStamp == 0
\* One device leaves a conflict copy at every stamp, a second one at the
\* last stamp; one more name carries the stamp that is no date.
ConflictNames ==
    {FileName("sync-conflict", s, "DEVICEA") : s \in 1..MaxTs}
        \cup {FileName("sync-conflict", MaxTs, "DEVICEB")}
        \cup {FileName("sync-conflict", BadStamp, "DEVICEA")}

\* Regex PATTERN applied to a file name: the captures, or no match.
ReMatches(name) == name.kind = "sync-conflict"

\* DateTime::strptime(SYNCTHING_DATE_FORMAT, _): Ok exactly for real dates,
\* and then the DateTime at the start of that second.
StampParses(stamp) == stamp >= 1
StampTime(stamp) == stamp * TicksPerSec

\* A backup folder is named by the second the run started in: strftime with
\* DATE_FORMAT drops the sub-second part of now(), strptime gives back the
\* start of the second.  BadFolder stands for an entry of the state
\* directory whose name strptime(DATE_FORMAT, _) rejects.
BadFolder == -1
FolderParses(name) == name >= 0
Strftime(now) == now \div TicksPerSec
Strptime(name) == name * TicksPerSec

\* ------------------------------------------------------------------- tasks
\* task_hookrs Task, reduced to what the program reads: uuid, the optional
\* modified date (<<>> is None, <<m>> is Some(m)), the entry date, and the
\* rest of the task as an opaque payload.
Task(u, m, e, p) == [uuid |-> u, modified |-> m, entry |-> e, payload |-> p]

\* The databases a file may hold: what tw::query("") returns for it.
DBsOf(name) ==
    { << Task(1, <<2>>, 1, name) >>,
      << Task(1, <<>>, 1, name), Task(2, <<1>>, 2, name) >> }

Range(s) == {s[k] : k \in DOMAIN s}
EmptyMap == [x \in {} |-> <<>>]
Remove(f, x) == [y \in DOMAIN f \ {x} |-> f[y]]
Put(f, x, v) == [y \in DOMAIN f \cup {x} |-> IF y = x THEN v ELSE f[y]]

\* ----------------------------------------------------------------- History
\* The effective time of a task: modified() or, when None, entry().
EffectiveTime(task) ==
    IF task.modified # <<>> THEN task.modified[1] ELSE task.entry

\* Mutant: a later record of a known uuid replaces the list of that uuid.
InsertOverwrite(h, task) == Put(Remove(h, task.uuid), task.uuid, <<task>>)

\* History::insert
Insert(h, task) ==
    IF task.uuid \in DOMAIN h
    THEN [h EXCEPT ![task.uuid] = Append(@, task)]
    ELSE Put(h, task.uuid, <<task>>)

RECURSIVE InsertAll(_, _)
InsertAll(h, ts) ==
    IF ts = <<>> THEN h ELSE InsertAll(Insert(h, Head(ts)), Tail(ts))

\* Mutant: the comparison is turned around.
NewerReversed(next_modified_time, modified_time) ==
    next_modified_time < modified_time

\* Mutant: an entry of equal time replaces the saved one too.
NewerOrEqual(next_modified_time, modified_time) ==
    next_modified_time >= modified_time

\* The comparison that lets a later entry replace the saved one.
Newer(next_modified_time, modified_time) == next_modified_time > modified_time

\* The while-let loop of History::merge over one task's history list.
RECURSIVE MergeLoop(_, _, _)
MergeLoop(history, k, saved) ==
    IF k > Len(history) THEN saved
    ELSE MergeLoop(history, k + 1,
            IF Newer(EffectiveTime(history[k]), EffectiveTime(saved))
            THEN history[k] ELSE saved)

MergeOne(history) == MergeLoop(history, 2, history[1])

\* HashMap::values(): the keys in some order.
RECURSIVE KeyOrder(_)
KeyOrder(keys) ==
    IF keys = {} THEN <<>>
    ELSE LET k == CHOOSE x \in keys : TRUE
         IN <<k>> \o KeyOrder(keys \ {k})

\* Mutant: a task seen only once is left out of the result.
MergeConflictingOnly(h) ==
    LET order == KeyOrder({u \in DOMAIN h : Len(h[u]) > 1})
    IN [n \in 1..Len(order) |-> MergeOne(h[order[n]])]

\* History::merge
Merge(h) ==
    LET order == KeyOrder(DOMAIN h)
    IN [n \in 1..Len(order) |-> MergeOne(h[order[n]])]

\* ------------------------------------------------------------ sort_by_key
\* Vec::sort_by_key(|x| x.0) is a stable sort: x goes behind every element
\* whose key is not greater.
\* Mutant: x goes in front of the elements of equal key.
RECURSIVE InsertSortedUnstable(_, _)
InsertSortedUnstable(s, x) ==
    IF s = <<>> THEN <<x>>
    ELSE IF s[Len(s)].ts < x.ts THEN Append(s, x)
    ELSE Append(InsertSortedUnstable(SubSeq(s, 1, Len(s) - 1), x), s[Len(s)])

RECURSIVE InsertSorted(_, _)
InsertSorted(s, x) ==
    IF s = <<>> THEN <<x>>
    ELSE IF s[Len(s)].ts <= x.ts THEN Append(s, x)
    ELSE Append(InsertSorted(SubSeq(s, 1, Len(s) - 1), x), s[Len(s)])

RECURSIVE SortByKey(_)
SortByKey(s) ==
    IF s = <<>> THEN <<>>
    ELSE InsertSorted(SortByKey(SubSeq(s, 1, Len(s) - 1)), s[Len(s)])

\* All orders in which read_dir may yield the members of a set.
Perms(S) ==
    {p \in [1..Cardinality(S) -> S] :
        \A a, b \in 1..Cardinality(S) : a # b => p[a] # p[b]}

\* ------------------------------------------------------------------- state
VARIABLES
    pc,          \* position of main(): the step to execute next
    failedAt,    \* the step at which main() returned an error or panicked
    runs,        \* number of the current invocation
    clock,       \* Zoned::now() of the current invocation, in ticks
    dryRun,      \* args.dry_run
    keep,        \* config.keep: <<>> is None, <<n>> is Some(n)
    taskDir,     \* the data directory: file name -> content
    mainMtime,   \* modification time of taskchampion.sqlite3
    stateDir,    \* the state directory: folder name -> (file name -> content)
    conflicts,   \* Vec of (timestamp, device, path)
    scanned,     \* the scan loop has completed without error
    nFound,      \* number of conflicts the scan found
    actionDir,   \* name of action_history_dir
    hist,        \* History.tasks
    tasks,       \* the result of hist.merge()
    spawned,     \* `task import` has been spawned in this invocation
    writerOk,    \* the writer thread wrote all of json_tasks
    exitOk,      \* `task import` exited with status 0
    tmpExists,   \* the temporary directory holds taskchampion.sqlite3
    tmpDb,       \* its content
    i,           \* loop index
    diff,        \* number of backup folders to remove
    entries,     \* Vec of (timestamp, path) of the state directory
    startDir,    \* taskDir when the invocation started
    startState,  \* stateDir when the invocation started
    prev,        \* how the previous invocation ended
    log          \* tasks passed to History::insert, in call order

vars == <<pc, failedAt, runs, clock, dryRun, keep, taskDir, mainMtime, stateDir,
          conflicts, scanned, nFound, actionDir, hist, tasks, spawned,
          writerOk, exitOk, tmpExists, tmpDb, i, diff, entries, startDir,
          startState, prev, log>>

dirVars  == <<taskDir, mainMtime, stateDir>>
argVars  == <<runs, clock, dryRun, keep, startDir, startState, prev>>
scanVars == <<conflicts, scanned, nFound>>
histVars == <<hist, tasks, log>>
impVars  == <<spawned, writerOk, exitOk, tmpExists, tmpDb>>
loopVars == <<i, diff, entries>>

\* -------------------------------------------------------------------- Init
ContentsOf(name) ==
    IF name.kind = "other" THEN {<<>>}
    ELSE IF ReMatches(name) /\ ~StampParses(name.stamp)
         THEN {<< Task(1, <<2>>, 1, name) >>}
         ELSE DBsOf(name)

DataDirs ==
    UNION { {f \in [D -> UNION {ContentsOf(n) : n \in D}] :
                \A n \in D : f[n] \in ContentsOf(n)} :
            D \in {C \cup M \cup {OtherFile} :
                    C \in {X \in SUBSET ConflictNames :
                              Cardinality(X) <= MaxConflicts},
                    M \in {{}, {MainDb}}} }

\* A backup folder named after a second no run of the model reaches: the
\* clock was set back since it was made.
FutureFolder == MaxOld + MaxTs + MaxRuns

\* Before the first run the state directory is empty, or holds MaxOld
\* backup folders, or holds an entry that is no backup folder, or holds a
\* backup folder with a name in the future.
StateDirs ==
    {[n \in 0..(k - 1) |-> EmptyMap] : k \in {0, MaxOld}}
        \cup {[n \in {BadFolder} |-> EmptyMap]}
        \cup {[n \in {FutureFolder} |-> EmptyMap]}

\* The main database was last written in the second of some stamp, so that
\* it sorts before, with or behind a conflict copy.
MainMtimes == {StampTime(s) : s \in 1..MaxTs}

KeepOptions == {<<>>} \cup {<<k>> : k \in 0..MaxKeepCfg}

\* The state directory and config.keep a run starts with.  With more than
\* one conflict copy in the data directory the state directory is fresh;
\* an entry that is no backup folder makes keep irrelevant.
PruneConfigs(dir) ==
    IF Cardinality({n \in DOMAIN dir : ReMatches(n)}) > 1
    THEN {<<EmptyMap, k>> : k \in KeepOptions}
    ELSE {<<sd, k>> \in StateDirs \X KeepOptions :
             BadFolder \in DOMAIN sd => k = <<>>}

Clock0 == TicksPerSec * (MaxOld + MaxTs)

RunLocalInit ==
    /\ conflicts = <<>> /\ scanned = FALSE /\ nFound = 0
    /\ actionDir = 0
    /\ hist = EmptyMap /\ tasks = <<>> /\ log = <<>>
    /\ spawned = FALSE /\ writerOk = FALSE /\ exitOk = FALSE
    /\ tmpExists = FALSE /\ tmpDb = <<>>
    /\ i = 0 /\ diff = 0 /\ entries = <<>>

Init ==
    /\ pc = "scan"
    /\ failedAt = "none"
    /\ runs = 1
    /\ clock = Clock0
    /\ dryRun \in BOOLEAN
    /\ taskDir \in DataDirs
    /\ \E cfg \in PruneConfigs(taskDir) :
          /\ stateDir = cfg[1]
          /\ keep = cfg[2]
    /\ mainMtime \in (IF MainDb \in DOMAIN taskDir THEN MainMtimes
                      ELSE {StampTime(1)})
    /\ startDir = taskDir
    /\ startState = stateDir
    /\ prev = [conf |-> FALSE, ok |-> FALSE]
    /\ RunLocalInit

RunLocalReset ==
    /\ conflicts' = <<>> /\ scanned' = FALSE /\ nFound' = 0
    /\ actionDir' = 0
    /\ hist' = EmptyMap /\ tasks' = <<>> /\ log' = <<>>
    /\ spawned' = FALSE /\ writerOk' = FALSE /\ exitOk' = FALSE
    /\ tmpExists' = FALSE /\ tmpDb' = <<>>
    /\ i' = 0 /\ diff' = 0 /\ entries' = <<>>

\* An error return or a panic: the process exits with a failure status.
Abort ==
    /\ pc' = "aborted"
    /\ failedAt' = pc
    /\ UNCHANGED <<argVars, dirVars, scanVars, actionDir, histVars, impVars,
                   loopVars>>

\* -------------------------------------------------------------------- scan
Matching == {n \in DOMAIN taskDir : ReMatches(n)}

ConflictOf(name) ==
    [ts |-> StampTime(name.stamp), device |-> name.device, path |-> name]

\* Mutant: the is_empty() test is missing.
AfterScanUnconditional(found) == "mkdir"

\* Where main() goes after the scan loop.
AfterScan(found) == IF found # <<>> THEN "mkdir" ELSE "prune"

\* The scan loop runs to its end.
ScanOk ==
    /\ pc = "scan"
    /\ \A n \in Matching : StampParses(n.stamp)
    /\ \E order \in Perms(Matching) :
          conflicts' = [k \in 1..Len(order) |-> ConflictOf(order[k])]
    /\ scanned' = TRUE
    /\ nFound' = Len(conflicts')
    /\ pc' = AfterScan(conflicts')
    /\ UNCHANGED <<failedAt, argVars, dirVars, actionDir, histVars, impVars, loopVars>>

\* Mutant: a matching name whose stamp does not parse is skipped.
ScanBadStampSkipped ==
    /\ pc = "scan"
    /\ \E n \in Matching : ~StampParses(n.stamp)
    /\ \E order \in Perms({n \in Matching : StampParses(n.stamp)}) :
          conflicts' = [k \in 1..Len(order) |-> ConflictOf(order[k])]
    /\ scanned' = TRUE
    /\ nFound' = Len(conflicts')
    /\ pc' = AfterScan(conflicts')
    /\ UNCHANGED <<failedAt, argVars, dirVars, actionDir, histVars, impVars,
                   loopVars>>

\* strptime rejects the stamp of a matching name.
ScanBadStamp ==
    /\ pc = "scan"
    /\ \E n \in Matching : ~StampParses(n.stamp)
    /\ Abort

\* read_dir, or reading an entry or its file type, fails.
ScanIoError ==
    /\ pc = "scan"
    /\ Abort

\* ---------------------------------------------------- backup folder, main db
CreateBackupDir ==
    /\ pc = "mkdir"
    /\ actionDir' = Strftime(clock)
    /\ stateDir' = IF actionDir' \in DOMAIN stateDir THEN stateDir
                   ELSE Put(stateDir, actionDir', EmptyMap)
    /\ pc' = "maindb"
    /\ UNCHANGED <<failedAt, argVars, taskDir, mainMtime, scanVars, histVars, impVars,
                   loopVars>>

CreateBackupDirFail ==
    /\ pc = "mkdir"
    /\ Abort

\* Mutant: the main database is not pushed onto the list of snapshots.
AddMainDbForgotten ==
    /\ pc = "maindb"
    /\ MainDb \in DOMAIN taskDir
    /\ conflicts' = SortByKey(conflicts)
    /\ hist' = EmptyMap
    /\ i' = 1
    /\ pc' = "extract"
    /\ UNCHANGED <<failedAt, argVars, dirVars, scanned, nFound, actionDir, tasks, log,
                   impVars, diff, entries>>

AddMainDb ==
    /\ pc = "maindb"
    /\ MainDb \in DOMAIN taskDir
    /\ conflicts' = SortByKey(Append(conflicts,
            [ts |-> mainMtime, device |-> "------", path |-> MainDb]))
    /\ hist' = EmptyMap
    /\ i' = 1
    /\ pc' = "extract"
    /\ UNCHANGED <<failedAt, argVars, dirVars, scanned, nFound, actionDir, tasks, log,
                   impVars, diff, entries>>

\* fs::metadata fails: always when the main database does not exist.
AddMainDbFail ==
    /\ pc = "maindb"
    /\ Abort

\* ----------------------------------------------------------------- extract
\* Mutant: the snapshot is moved, not copied, into the temporary directory.
ExtractMoving ==
    /\ pc = "extract"
    /\ LET db == taskDir[conflicts[i].path]
       IN /\ hist' = InsertAll(hist, db)
          /\ log' = log \o db
    /\ taskDir' = Remove(taskDir, conflicts[i].path)
    /\ i' = i + 1
    /\ pc' = IF i = Len(conflicts) THEN "spawn" ELSE "extract"
    /\ UNCHANGED <<failedAt, argVars, mainMtime, stateDir, scanVars,
                   actionDir, tasks, impVars, diff, entries>>

Extract ==
    /\ pc = "extract"
    /\ LET db == taskDir[conflicts[i].path]
       IN /\ hist' = InsertAll(hist, db)
          /\ log' = log \o db
    /\ i' = i + 1
    /\ pc' = IF i = Len(conflicts) THEN "spawn" ELSE "extract"
    /\ UNCHANGED <<failedAt, argVars, dirVars, scanVars, actionDir, tasks, impVars,
                   diff, entries>>

\* TempDir::new, fs::copy or tw::query fails.
ExtractFail ==
    /\ pc = "extract"
    /\ Abort

\* ------------------------------------------------------- merge, re-import
MergeAndSpawn ==
    /\ pc = "spawn"
    /\ tasks' = Merge(hist)
    /\ spawned' = TRUE
    /\ pc' = "import"
    /\ UNCHANGED <<failedAt, argVars, dirVars, scanVars, actionDir, hist, log,
                   writerOk, exitOk, tmpExists, tmpDb, loopVars>>

\* serde_json::to_string or TempDir::new fails, or the spawn fails (bail!).
SpawnFail ==
    /\ pc = "spawn"
    /\ tasks' = Merge(hist)
    /\ pc' = "aborted"
    /\ failedAt' = pc
    /\ UNCHANGED <<argVars, dirVars, scanVars, actionDir, hist, log, impVars,
                   loopVars>>

\* What `task import` leaves in the temporary directory: the imported tasks
\* when it read all of them and exited 0; otherwise no database, or a
\* database it created and imported nothing into.
ImportResults(w, e) ==
    IF w /\ e THEN {[exists |-> TRUE, db |-> tasks]}
    ELSE {[exists |-> FALSE, db |-> <<>>], [exists |-> TRUE, db |-> <<>>]}

\* <<the writer wrote everything, the child exited 0>>
ImportOutcomes == BOOLEAN \X BOOLEAN

\* Where main() goes once wait_with_output has returned.
AfterImport(w, e) == "backup"

\* Mutant: TASKDATA of the child is the data directory, so the import
\* writes the main database in place.
ImportInPlace ==
    /\ pc = "import"
    /\ \E o \in ImportOutcomes :
       LET w == o[1]
           e == o[2]
       IN
          /\ writerOk' = w
          /\ exitOk' = e
          /\ \E r \in ImportResults(w, e) :
                /\ tmpExists' = r.exists
                /\ tmpDb' = r.db
                /\ taskDir' = IF r.exists THEN Put(taskDir, MainDb, r.db)
                              ELSE taskDir
          /\ pc' = AfterImport(w, e)
    /\ mainMtime' = clock
    /\ i' = 1
    /\ UNCHANGED <<failedAt, argVars, stateDir, scanVars, actionDir, histVars,
                   spawned, diff, entries>>

\* The writer thread runs detached, the child is waited for, its output is
\* logged; its exit status is not looked at.
Import ==
    /\ pc = "import"
    /\ \E o \in ImportOutcomes :
       LET w == o[1]
           e == o[2]
       IN
          /\ writerOk' = w
          /\ exitOk' = e
          /\ \E r \in ImportResults(w, e) :
                /\ tmpExists' = r.exists
                /\ tmpDb' = r.db
          /\ pc' = AfterImport(w, e)
    /\ i' = 1
    /\ UNCHANGED <<failedAt, argVars, dirVars, scanVars, actionDir, histVars, spawned,
                   diff, entries>>

\* wait_with_output fails: expect() panics.
ImportWaitFail ==
    /\ pc = "import"
    /\ Abort

\* ------------------------------------------------- backup, remove, replace
BackupCopy ==
    /\ pc = "backup"
    /\ LET path == conflicts[i].path
       IN stateDir' = [stateDir EXCEPT ![actionDir] = Put(@, path, taskDir[path])]
    /\ pc' = "remove"
    /\ UNCHANGED <<failedAt, argVars, taskDir, mainMtime, scanVars, actionDir, histVars,
                   impVars, loopVars>>

\* Mutant: the result of fs::copy is dropped and the loop goes on.
BackupCopyFailIgnored ==
    /\ pc = "backup"
    /\ pc' = "remove"
    /\ UNCHANGED <<failedAt, argVars, dirVars, scanVars, actionDir, histVars,
                   impVars, loopVars>>

\* fs::copy into the backup folder fails: `?` returns the error.
BackupCopyFail ==
    /\ pc = "backup"
    /\ Abort

\* Mutant: the loop goes on without removing the file.
RemoveFileSkipped ==
    /\ pc = "remove"
    /\ i' = i + 1
    /\ pc' = IF i = Len(conflicts) THEN "replace" ELSE "backup"
    /\ UNCHANGED <<failedAt, argVars, dirVars, scanVars, actionDir, histVars,
                   impVars, diff, entries>>

RemoveFile ==
    /\ pc = "remove"
    /\ taskDir' = Remove(taskDir, conflicts[i].path)
    /\ i' = i + 1
    /\ pc' = IF i = Len(conflicts) THEN "replace" ELSE "backup"
    /\ UNCHANGED <<failedAt, argVars, mainMtime, stateDir, scanVars, actionDir,
                   histVars, impVars, diff, entries>>

RemoveFileFail ==
    /\ pc = "remove"
    /\ Abort

Replace ==
    /\ pc = "replace"
    /\ tmpExists
    /\ taskDir' = Put(taskDir, MainDb, tmpDb)
    /\ mainMtime' = clock
    /\ pc' = "prune"
    /\ UNCHANGED <<failedAt, argVars, stateDir, scanVars, actionDir, histVars, impVars,
                   loopVars>>

\* fs::copy fails: always when the import left no database behind.
ReplaceFail ==
    /\ pc = "replace"
    /\ Abort

\* ------------------------------------------------------------------- prune
NumToKeep == IF keep = <<>> THEN DEFAULT_KEEP_NUM ELSE keep[1]

EntryOf(name) == [ts |-> Strptime(name), path |-> name]

\* How many entries the removal loop removes.
Excess(num_entries, num_to_keep) ==
    IF num_entries > num_to_keep THEN num_entries - num_to_keep ELSE 0

\* Mutant: the entries are left in read_dir order.
PruneOrderUnsorted(es) == es

\* Mutant: the entries are sorted newest first.
PruneOrderNewestFirst(es) ==
    LET sorted == SortByKey(es)
    IN [k \in 1..Len(sorted) |-> sorted[Len(sorted) + 1 - k]]

\* The order in which the removal loop walks the entries.
PruneOrder(es) == SortByKey(es)

PruneStart ==
    /\ pc = "prune"
    /\ \A n \in DOMAIN stateDir : FolderParses(n)
    /\ \E order \in Perms(DOMAIN stateDir) :
          LET es == [k \in 1..Len(order) |-> EntryOf(order[k])]
              d  == Excess(Len(es), NumToKeep)
          IN /\ diff' = d
             /\ entries' = IF d > 0 THEN PruneOrder(es) ELSE es
             /\ pc' = IF d > 0 THEN "pruning" ELSE "done"
    /\ i' = 1
    /\ UNCHANGED <<failedAt, argVars, dirVars, scanVars, actionDir, histVars, impVars>>

\* strptime(DATE_FORMAT, _) rejects an entry's name: unwrap() panics.
PruneBadName ==
    /\ pc = "prune"
    /\ \E n \in DOMAIN stateDir : ~FolderParses(n)
    /\ Abort

\* read_dir of the state directory fails.
PruneIoError ==
    /\ pc = "prune"
    /\ Abort

PruneRemove ==
    /\ pc = "pruning"
    /\ stateDir' = Remove(stateDir, entries[i].path)
    /\ i' = i + 1
    /\ pc' = IF i = diff THEN "done" ELSE "pruning"
    /\ UNCHANGED <<failedAt, argVars, taskDir, mainMtime, scanVars, actionDir, histVars,
                   impVars, diff, entries>>

PruneRemoveFail ==
    /\ pc = "pruning"
    /\ Abort

\* --------------------------------------------------------- next invocation
\* After a run that returned Ok(()) the same command is run again, on the
\* directories as that run left them.
NextRun ==
    /\ pc = "done"
    /\ runs < MaxRuns
    /\ runs' = runs + 1
    /\ clock' = clock + 1
    /\ dryRun' = dryRun
    /\ prev' = [conf |-> scanned /\ nFound > 0, ok |-> pc = "done"]
    /\ startDir' = taskDir
    /\ startState' = stateDir
    /\ pc' = "scan"
    /\ failedAt' = "none"
    /\ RunLocalReset
    /\ UNCHANGED <<keep, dirVars>>

Next ==
    \/ ScanOk \/ ScanBadStamp \/ ScanIoError
    \/ CreateBackupDir \/ CreateBackupDirFail
    \/ AddMainDb \/ AddMainDbFail
    \/ Extract \/ ExtractFail
    \/ MergeAndSpawn \/ SpawnFail
    \/ Import \/ ImportWaitFail
    \/ BackupCopy \/ BackupCopyFail
    \/ RemoveFile \/ RemoveFileFail
    \/ Replace \/ ReplaceFail
    \/ PruneStart \/ PruneBadName \/ PruneIoError
    \/ PruneRemove \/ PruneRemoveFail
    \/ NextRun

Spec == Init /\ [][Next]_vars

TypeOK ==
    /\ pc \in {"scan", "mkdir", "maindb", "extract", "spawn", "import",
               "backup", "remove", "replace", "prune", "pruning", "done",
               "aborted"}
    /\ runs \in 1..MaxRuns
    /\ i \in 0..(MaxConflicts + MaxOld + MaxRuns + 2)

\* ------------------------------------------------- History on its own
\* History::insert and History::merge applied to arbitrary tasks: a History
\* is built by up to MaxHist insert calls and then merged.
Uuids == {1, 2}
Times == 1..MaxTime
\* A task never modified, entered at any time, or one entered at time 1 and
\* modified at any time.
HistTasks ==
    {Task(u, <<>>, e, MainDb) : u \in Uuids, e \in Times}
        \cup {Task(u, <<m>>, 1, MainDb) : u \in Uuids, m \in Times}

InitHistory ==
    /\ pc = "history"
    /\ failedAt = "none"
    /\ runs = 1
    /\ clock = Clock0
    /\ dryRun = FALSE
    /\ keep = <<>>
    /\ taskDir = EmptyMap
    /\ mainMtime = StampTime(1)
    /\ stateDir = EmptyMap
    /\ startDir = EmptyMap
    /\ startState = EmptyMap
    /\ prev = [conf |-> FALSE, ok |-> FALSE]
    /\ RunLocalInit

HistInsert(task) ==
    /\ pc = "history"
    /\ Len(log) < MaxHist
    /\ hist' = Insert(hist, task)
    /\ log' = Append(log, task)
    /\ UNCHANGED <<pc, failedAt, argVars, dirVars, scanVars, actionDir, tasks,
                   impVars, loopVars>>

HistMerge ==
    /\ pc = "history"
    /\ tasks' = Merge(hist)
    /\ pc' = "merged"
    /\ UNCHANGED <<failedAt, argVars, dirVars, scanVars, actionDir, hist, log,
                   impVars, loopVars>>

NextHistory ==
    \/ \E task \in HistTasks : HistInsert(task)
    \/ HistMerge

SpecHistory == InitHistory /\ [][NextHistory]_vars

\* ===================================================================
\* Properties
\* ===================================================================

\* The last step main() reached.
Step == IF pc = "aborted" THEN failedAt ELSE pc

\* wait_with_output has returned in this invocation.
PastImport ==
    spawned /\ Step \in {"backup", "remove", "replace", "prune", "pruning",
                         "done"}

\* The re-import failed: no spawn, or the writer did not get the records
\* through, or the child exited with a non-zero status.
ReimportFailed ==
    \/ pc = "aborted" /\ failedAt \in {"spawn", "import"}
    \/ PastImport /\ ~(writerOk /\ exitOk)

\* No backup folder has been created and no file copied into one.
NoBackupWritten ==
    \A f \in DOMAIN stateDir :
        f \in DOMAIN startState /\ stateDir[f] = startState[f]

\* No file has been copied into any backup folder.
NoBackupCopy ==
    \A f \in DOMAIN stateDir :
        stateDir[f] = (IF f \in DOMAIN startState THEN startState[f]
                       ELSE EmptyMap)

\* C1: in a run that found a conflict, a failed re-import aborts the run
\* before any backup, delete or replace step: every conflict file and the
\* main database are still in the data directory with their content.
C1_ReimportFailureIsSafe ==
    (nFound > 0 /\ ReimportFailed) =>
        /\ taskDir = startDir
        /\ NoBackupCopy
        /\ pc # "done"

\* C2: with --dry-run a run spawns no re-import, creates no backup folder,
\* copies and deletes nothing and leaves the data directory as it was.
C2_DryRunChangesNothing ==
    dryRun => (~spawned /\ taskDir = startDir /\ NoBackupWritten)

\* C3: when the scan finds no conflict file, the run deletes no file of the
\* data directory, creates no backup folder and spawns no re-import; the
\* only step left is the pruning of the state directory.
C3_NoConflictNoOp ==
    (scanned /\ nFound = 0) =>
        /\ taskDir = startDir
        /\ NoBackupWritten
        /\ ~spawned
        /\ Step \in {"prune", "pruning", "done"}

\* A run without conflicts has pruned a backup folder and returned Ok(()).
C3_Witness ==
    /\ scanned /\ nFound = 0
    /\ MainDb \in DOMAIN taskDir
    /\ pc = "done" /\ diff > 0

\* C4: a file leaves the data directory only when the backup folder of the
\* run already holds a copy of it; a step of the backup loop either makes
\* that copy or aborts the run with the file still in place.
C4_BackupBeforeDelete ==
    [][ /\ \A n \in DOMAIN taskDir :
              n \notin DOMAIN taskDir' =>
                  /\ actionDir \in DOMAIN stateDir
                  /\ n \in DOMAIN stateDir[actionDir]
                  /\ stateDir[actionDir][n] = taskDir[n]
        /\ pc = "backup" =>
              \/ /\ pc' = "remove"
                 /\ conflicts[i].path \in DOMAIN stateDir'[actionDir]
                 /\ stateDir'[actionDir][conflicts[i].path]
                        = taskDir[conflicts[i].path]
              \/ /\ pc' = "aborted"
                 /\ taskDir' = taskDir
                 /\ conflicts[i].path \in DOMAIN taskDir'
      ]_vars

\* The copy of a later file failed after an earlier file was copied and
\* removed.
C4_Witness ==
    /\ pc = "aborted" /\ failedAt = "backup"
    /\ i >= 2
    /\ conflicts[1].path \notin DOMAIN taskDir
    /\ conflicts[1].path \in DOMAIN stateDir[actionDir]
    /\ conflicts[i].path \in DOMAIN taskDir

\* C5: when the backup copy of a participant fails, that participant and the
\* main database are both still in the data directory after the abort,
\* wherever they stand in the sorted order.
C5_CopyFailureKeepsMainDb ==
    (pc = "aborted" /\ failedAt = "backup") =>
        /\ conflicts[i].path \in DOMAIN taskDir
        /\ MainDb \in DOMAIN taskDir

\* The effective time as the specification words it.
ClaimEffective(task) ==
    IF task.modified = <<>> THEN task.entry ELSE task.modified[1]

\* The entries inserted for an item, in insertion order.
EntriesOf(u) ==
    LET IsOf(task) == task.uuid = u IN SelectSeq(log, IsOf)

\* The records History::merge emitted for an item.
Emitted(u) == {tasks[k] : k \in {j \in DOMAIN tasks : tasks[j].uuid = u}}

DistinctTimes(es) ==
    \A a, b \in 1..Len(es) :
        a # b => ClaimEffective(es[a]) # ClaimEffective(es[b])

IsLatest(es, k) ==
    \A j \in 1..Len(es) : ClaimEffective(es[j]) <= ClaimEffective(es[k])

\* The first position of an entry with the greatest effective time.
FirstLatest(es) ==
    CHOOSE k \in 1..Len(es) :
        /\ IsLatest(es, k)
        /\ \A j \in 1..(k - 1) : ~IsLatest(es, j)

\* C6: for an item whose entries have pairwise distinct effective times
\* (modified, or entry when there is no modified), merge emits exactly the
\* entry with the greatest effective time.
C6_LastWriteWins ==
    pc = "merged" =>
        \A u \in Uuids :
            LET es == EntriesOf(u)
            IN (es # <<>> /\ DistinctTimes(es)) =>
                  \E k \in 1..Len(es) :
                      IsLatest(es, k) /\ Emitted(u) = {es[k]}

\* Three entries of distinct times were merged and the winner is the second
\* one, which has no modified time and wins by its entry time.
C6_Witness ==
    /\ pc = "merged"
    /\ \E u \in Uuids :
          LET es == EntriesOf(u)
          IN /\ Len(es) = 3 /\ DistinctTimes(es)
             /\ es[2].modified = <<>>
             /\ es[1].modified # <<>> /\ es[3].modified # <<>>
             /\ Emitted(u) = {es[2]}

\* The snapshot files in processing order, with the content they had when
\* the run started.
Snapshot(k) == startDir[conflicts[k].path]

HasLatest(k, u, es) ==
    \E t \in Range(Snapshot(k)) :
        t.uuid = u /\ ClaimEffective(t) = ClaimEffective(es[FirstLatest(es)])

\* C7: when several entries of an item share the greatest effective time,
\* merge emits the one inserted first, which comes from the earliest
\* snapshot in processing order that holds such an entry.
C7_TieKeepsFirst ==
    spawned =>
        \A u \in Uuids :
            LET es == EntriesOf(u)
            IN es # <<>> =>
                  /\ Emitted(u) = {es[FirstLatest(es)]}
                  /\ \E k \in 1..Len(conflicts) :
                        /\ es[FirstLatest(es)] \in Range(Snapshot(k))
                        /\ \A j \in 1..(k - 1) : ~HasLatest(j, u, es)

\* Two different records of two snapshots tie for the greatest time behind
\* an older record, and the first of the two was emitted.
C7_Witness ==
    /\ spawned
    /\ \E u \in Uuids :
          LET es == EntriesOf(u)
          IN /\ Len(es) = 3
             /\ ClaimEffective(es[1]) < ClaimEffective(es[2])
             /\ ClaimEffective(es[2]) = ClaimEffective(es[3])
             /\ es[2] # es[3]
             /\ Emitted(u) = {es[2]}

\* The folders the pruning found, and those it removed.
FoldersBefore == {entries[k].path : k \in DOMAIN entries}
FoldersRemoved == FoldersBefore \ DOMAIN stateDir

\* C8: pruning n folders with limit k removes exactly max(0, n - k) of
\* them, the ones with the smallest timestamps, and leaves the others.
C8_PruneOldest ==
    pc = "done" =>
        LET n == Cardinality(FoldersBefore)
            k == NumToKeep
        IN /\ Cardinality(FoldersRemoved) = (IF n > k THEN n - k ELSE 0)
           /\ DOMAIN stateDir = FoldersBefore \ FoldersRemoved
           /\ \A r \in FoldersRemoved : \A f \in DOMAIN stateDir :
                  Strptime(r) < Strptime(f)
           /\ k >= n => FoldersRemoved = {}
           /\ k = 0 => DOMAIN stateDir = {}

\* Pruning removed the two oldest folders and kept the newest.
C8_Witness ==
    /\ pc = "done"
    /\ Cardinality(FoldersRemoved) = 2
    /\ Cardinality(DOMAIN stateDir) = 1

\* C9: after a run with a conflict has returned Ok(()), no conflict-named
\* file is left in the data directory, the main database holds the merged
\* tasks, and the run's backup folder holds every participant under its
\* own name.
C9_CompletedRun ==
    (pc = "done" /\ nFound > 0) =>
        /\ \A n \in DOMAIN taskDir : ~ReMatches(n)
        /\ MainDb \in DOMAIN taskDir
        /\ Range(taskDir[MainDb]) = Range(tasks)
        /\ actionDir \in DOMAIN stateDir
        /\ \A k \in 1..Len(conflicts) :
              /\ conflicts[k].path \in DOMAIN stateDir[actionDir]
              /\ stateDir[actionDir][conflicts[k].path] = Snapshot(k)

\* C10: the run after a run that resolved conflicts and returned Ok(())
\* finds no conflict and leaves every file of the data directory as it was.
C10_RerunIsNoOp ==
    (prev.conf /\ prev.ok) =>
        /\ taskDir = startDir
        /\ scanned => nFound = 0
        /\ ~spawned
        /\ NoBackupWritten

\* The run after a completed run with conflicts has itself completed.
C10_Witness ==
    /\ prev.conf /\ prev.ok
    /\ runs = 2 /\ pc = "done"
    /\ scanned

\* A name of the data directory that matches PATTERN with a stamp that is
\* no date.
BadStampPresent ==
    \E n \in DOMAIN startDir : ReMatches(n) /\ ~StampParses(n.stamp)

\* C11: when the data directory cannot be read or a matching name carries a
\* stamp that is no date, the scan fails and the run aborts (the file is not
\* skipped) with nothing mutated: no backup folder, no copy, no deletion, no
\* replacement, no re-import.
C11_ScanFailureIsFatal ==
    /\ BadStampPresent =>
          /\ ~scanned
          /\ Step = "scan"
    /\ (pc = "aborted" /\ failedAt = "scan") =>
          /\ taskDir = startDir
          /\ stateDir = startState
          /\ ~spawned

\* The scan aborted on a bad stamp next to a conflict copy with a good one.
C11_Witness ==
    /\ pc = "aborted" /\ failedAt = "scan"
    /\ BadStampPresent
    /\ \E n \in DOMAIN taskDir : ReMatches(n) /\ StampParses(n.stamp)
    /\ MainDb \in DOMAIN taskDir

\* C12: when the extraction of a snapshot fails the run aborts before any
\* deletion: every file of the data directory is present and unchanged,
\* nothing was copied into a backup folder and no re-import was started.
C12_ExtractFailureIsSafe ==
    (pc = "aborted" /\ failedAt = "extract") =>
        /\ taskDir = startDir
        /\ NoBackupCopy
        /\ ~spawned

\* The extraction of the last snapshot failed after the others succeeded.
C12_Witness ==
    /\ pc = "aborted" /\ failedAt = "extract"
    /\ Len(conflicts) = 3 /\ i = 3
    /\ log # <<>>

\* The records of an item in the snapshots the run processes.
Observed(u) ==
    {t \in UNION {Range(Snapshot(k)) : k \in 1..Len(conflicts)} : t.uuid = u}

\* C13: the records handed to the re-import hold exactly one record for
\* every item of a processed snapshot and none for another item, and each
\* is one of the records observed for its item, unchanged.
C13_OneRecordPerItem ==
    spawned =>
        \A u \in Uuids :
            LET at == {j \in DOMAIN tasks : tasks[j].uuid = u}
            IN IF Observed(u) = {} THEN at = {}
               ELSE /\ Cardinality(at) = 1
                    /\ \A j \in at : tasks[j] \in Observed(u)

\* One item is in every snapshot, another in one snapshot only.
C13_Witness ==
    /\ spawned
    /\ Len(conflicts) = 3
    /\ Cardinality(Observed(1)) = 3
    /\ Cardinality(Observed(2)) = 1
    /\ Len(tasks) = 2

\* C14: after any sequence of History::insert calls the keys of the map are
\* the inserted uuids, no key maps to an empty list, and the list of a key
\* holds the inserted records of that uuid in insertion order.
C14_HistoryShape ==
    /\ DOMAIN hist = {log[k].uuid : k \in DOMAIN log}
    /\ \A u \in DOMAIN hist :
          /\ hist[u] # <<>>
          /\ hist[u] = EntriesOf(u)

\* Two records of one uuid and one of another were inserted and merged.
C14_Witness ==
    /\ pc = "merged"
    /\ Len(log) = 3
    /\ \E u \in DOMAIN hist : Len(hist[u]) = 2
    /\ Len(tasks) = 2

\* C15: the main database is not written, truncated or replaced before the
\* re-import subprocess has finished; the only write to its path is the copy
\* of the re-imported database into place, after the backup loop is through.
C15_MainDbWrittenLast ==
    [][LET had == MainDb \in DOMAIN taskDir
           has == MainDb \in DOMAIN taskDir'
           written == has /\ (had => taskDir'[MainDb] # taskDir[MainDb])
       IN /\ (had # has \/ written \/ mainMtime' # mainMtime) =>
                 spawned /\ pc \in {"remove", "replace"}
          /\ written =>
                 /\ spawned /\ pc = "replace" /\ pc' = "prune"
                 /\ taskDir'[MainDb] = tmpDb
                 /\ \A k \in DOMAIN conflicts :
                        /\ conflicts[k].path \in DOMAIN stateDir[actionDir]
                        /\ stateDir[actionDir][conflicts[k].path]
                               = startDir[conflicts[k].path]]_vars

\* A successful re-import was copied into place and differs from the main
\* database the run started with.
C15_Witness ==
    /\ pc = "prune" /\ spawned
    /\ writerOk /\ exitOk
    /\ MainDb \in DOMAIN taskDir
    /\ taskDir[MainDb] = tasks
    /\ taskDir[MainDb] # startDir[MainDb]

\* C16: when the writer thread fails, the run does not go on to back up,
\* delete and replace.
C16_WriterFailureStopsRun ==
    (PastImport /\ ~writerOk) =>
        /\ taskDir = startDir
        /\ NoBackupCopy

\* The merge has been reached: History::merge is about to be or was called.
MergeReached == pc = "spawn" \/ spawned \/ (pc = "aborted" /\ failedAt = "spawn")

\* C17: whenever merge work is performed the main database is one of the
\* snapshots, each of its records is in the history before History::merge
\* is called, and no record is emitted that is older than the main
\* database's record of that item.
C17_MainDbCompetes ==
    MergeReached =>
        /\ \E k \in DOMAIN conflicts : conflicts[k].path = MainDb
        /\ \A t \in Range(startDir[MainDb]) :
              /\ t.uuid \in DOMAIN hist
              /\ t \in Range(hist[t.uuid])
              /\ pc # "spawn" =>
                    \A e \in Emitted(t.uuid) :
                        ClaimEffective(e) >= ClaimEffective(t)

\* The record of the main database won against an older record of a
\* conflict copy that was inserted before it.
C17_Witness ==
    /\ spawned
    /\ \E t \in Range(startDir[MainDb]) :
          /\ t \in Range(tasks)
          /\ Len(hist[t.uuid]) >= 2
          /\ hist[t.uuid][1] # t
          /\ ClaimEffective(hist[t.uuid][1]) < ClaimEffective(t)

\* C18: the snapshots are folded in ascending order of timestamp, those of
\* equal timestamp in discovery order with the main database counted as
\* discovered last.
C18_ProcessingOrder ==
    [][/\ (pc = "maindb" /\ pc' = "extract") =>
            LET d == Append(conflicts,
                        [ts |-> mainMtime, device |-> "------", path |-> MainDb])
                Pos(e) == CHOOSE k \in DOMAIN d : d[k] = e
            IN /\ Len(conflicts') = Len(d)
               /\ Range(conflicts') = Range(d)
               /\ i' = 1
               /\ \A a, b \in DOMAIN conflicts' :
                     a < b =>
                        \/ conflicts'[a].ts < conflicts'[b].ts
                        \/ /\ conflicts'[a].ts = conflicts'[b].ts
                           /\ Pos(conflicts'[a]) < Pos(conflicts'[b])
       /\ (pc = "extract" /\ pc' # "aborted") =>
            /\ log' = log \o startDir[conflicts[i].path]
            /\ conflicts' = conflicts
            /\ i' = i + 1
            /\ (pc' = "extract") = (i < Len(conflicts))]_vars

\* Three snapshots of one timestamp were folded: the copy of DEVICEB, found
\* first, then that of DEVICEA, then the main database.
C18_Witness ==
    /\ pc = "spawn"
    /\ Len(conflicts) = 3
    /\ conflicts[1].ts = conflicts[3].ts
    /\ conflicts[1].device = "DEVICEB"
    /\ conflicts[2].device = "DEVICEA"
    /\ conflicts[3].path = MainDb
    /\ log = Snapshot(1) \o Snapshot(2) \o Snapshot(3)

\* C19: a run that aborts during the scan, the lookup of the main database,
\* the extraction or the re-import leaves the set of backup folders as it
\* was: the folder is created only after the re-import succeeded.
C19_BackupFolderAfterImport ==
    (pc = "aborted" /\ failedAt \in {"scan", "maindb", "extract", "spawn",
                                     "import"}) =>
        DOMAIN stateDir = DOMAIN startState

\* The files a run with a conflict works on: the conflict copies and the
\* main database, as they were when the run started.
Participants == {n \in DOMAIN startDir : ReMatches(n) \/ n = MainDb}

\* The original content of a participant is at its path in the data
\* directory or in the backup folder of this run.
Recoverable(n) ==
    \/ n \in DOMAIN taskDir /\ taskDir[n] = startDir[n]
    \/ /\ actionDir \in DOMAIN stateDir
       /\ n \in DOMAIN stateDir[actionDir]
       /\ stateDir[actionDir][n] = startDir[n]

\* The removal loop of the pruning has been entered.
PruningEntered == Step \in {"pruning", "done"}

\* No folder the pruning found is named after a later second than the
\* backup folder of this run.
RunFolderNewest ==
    \A f \in FoldersBefore : Strptime(f) <= Strptime(actionDir)

\* C20: in every state of a run, up to the end of the pruning and for
\* every retention limit including 0, the original content of each
\* participant is at its original path or in the backup folder of this run.
C20_Recoverable == \A n \in Participants : Recoverable(n)

\* C20 as amended: the same up to the start of the removal loop of the
\* pruning, and through it when the retention limit is at least 1 and no
\* folder is newer than the backup folder of this run.
C20_RecoverableUnlessPruned ==
    (PruningEntered => (NumToKeep >= 1 /\ RunFolderNewest)) =>
        \A n \in Participants : Recoverable(n)

\* A run with limit 1 removed every participant from the data directory,
\* replaced the main database by another one and pruned the older folders;
\* its own backup folder holds the originals.
C20_Witness ==
    /\ pc = "done" /\ nFound > 0
    /\ NumToKeep = 1
    /\ RunFolderNewest
    /\ FoldersRemoved # {}
    /\ \A n \in Participants :
          /\ ~(n \in DOMAIN taskDir /\ taskDir[n] = startDir[n])
          /\ Recoverable(n)

====
